---- MODULE Spec2Model ----
(***************************************************************************)
(* A model of the CLI session recorder                                     *)
(* (src/cli-session-recorder/resources/session_recorder.py): the           *)
(* SessionRecorder state machine, the statistics of SessionData, the       *)
(* redaction pass scrub_sensitive_data with its regular expressions, and   *)
(* the debug-log miner run by stop_recording.                              *)
(*                                                                         *)
(* Conventions.  An Optional[...] value is <<>> (None) or <<v>>.  A str is *)
(* a tuple of one-character strings.  Exchange objects live in `heap`,     *)
(* keyed by an object identity, so that two references to one object       *)
(* (the open-exchange slot and an element of session.exchanges) are        *)
(* told apart from two equal values.                                       *)
(***************************************************************************)
EXTENDS Integers, Sequences, FiniteSets, TLC

VARIABLES
    recording,            \* SessionRecorder._recording
    metadata,             \* session.metadata: start_time, end_time, git_branch
    environment,          \* session.environment: Optional[EnvironmentContext]
    heap,                 \* the live Exchange objects, by identity
    next_id,              \* identity of the next Exchange object constructed
    exchanges,            \* session.exchanges: list of Exchange references
    errors,               \* session.errors: list of dicts
    debug_logs,           \* session.debug_logs: list of dicts
    current_exchange,     \* SessionRecorder._current_exchange: reference or NoExchange
    exchange_start_time,  \* SessionRecorder._exchange_start_time: Optional[float]
    tool_start_time,      \* SessionRecorder._tool_start_time: Optional[float]
    log_dir,              \* SessionRecorder._log_dir: Optional[str]
    now,                  \* the clock read by datetime.now() and time.time(), in seconds
    fs,                   \* the log directory on disk: <<>> (missing) or <<set of files>>
    reads                 \* names of the files read_text() was called on by the last miner run

vars == <<recording, metadata, environment, heap, next_id, exchanges, errors,
          debug_logs, current_exchange, exchange_start_time, tool_start_time,
          log_dir, now, fs, reads>>

\* The fields of the recorder and of its SessionData (everything but the
\* clock and the disk).
recorder_vars == <<recording, metadata, environment, heap, next_id, exchanges,
                   errors, debug_logs, current_exchange, exchange_start_time,
                   tool_start_time, log_dir>>

(***************************************************************************)
(* Optional values and small helpers                                       *)
(***************************************************************************)
None == <<>>
Some(v) == <<v>>
\* Python truthiness of an Optional[float]: None and 0.0 are falsy.
TruthyNum(o) == o # None /\ o[1] # 0
\* Python truthiness of an Optional[str]: None and "" are falsy.
TruthyStr(o) == o # None /\ o[1] # <<>>
NoExchange == 0
Range(seq) == {seq[i] : i \in 1..Len(seq)}
MinOf(S) == CHOOSE x \in S : \A y \in S : x <= y

RECURSIVE SumSeq(_)
SumSeq(seq) == IF seq = <<>> THEN 0 ELSE Head(seq) + SumSeq(Tail(seq))

RECURSIVE Concat(_)
Concat(seqs) == IF seqs = <<>> THEN <<>> ELSE Head(seqs) \o Concat(Tail(seqs))

Repeat(x, n) == [i \in 1..n |-> x]

(***************************************************************************)
(* Characters and character classes of the regular expressions             *)
(***************************************************************************)
Lower == {"a","b","c","d","e","f","g","h","i","j","k","l","m","n","o","p","q","r","s","t","u","v","w","x","y","z"}
Upper == {"A","B","C","D","E","F","G","H","I","J","K","L","M","N","O","P","Q","R","S","T","U","V","W","X","Y","Z"}
Digit == {"0","1","2","3","4","5","6","7","8","9"}
AlNum == Lower \cup Upper \cup Digit
WordChar == AlNum \cup {"_"}
SpaceChar == {" ", "\t", "\n", "\r", "\f"}
LowerOf ==
    "A" :> "a" @@ "B" :> "b" @@ "C" :> "c" @@ "D" :> "d" @@ "E" :> "e" @@ "F" :> "f" @@
    "G" :> "g" @@ "H" :> "h" @@ "I" :> "i" @@ "J" :> "j" @@ "K" :> "k" @@ "L" :> "l" @@
    "M" :> "m" @@ "N" :> "n" @@ "O" :> "o" @@ "P" :> "p" @@ "Q" :> "q" @@ "R" :> "r" @@
    "S" :> "s" @@ "T" :> "t" @@ "U" :> "u" @@ "V" :> "v" @@ "W" :> "w" @@ "X" :> "x" @@
    "Y" :> "y" @@ "Z" :> "z"

(***************************************************************************)
(* Regular expressions.  Every pattern of the source is a sequence of      *)
(* items, an item being an ordered alternation of literal strings or a     *)
(* character class with a greedy repetition min..max (max = 0: no upper    *)
(* limit).  A group such as (api[_-]?key|token) is written as the ordered  *)
(* alternation of the strings it denotes, the greedy choice first.         *)
(* ci is re.IGNORECASE / (?i): it changes literals only, every class used  *)
(* being closed under change of case.  No pattern here matches the empty   *)
(* string.                                                                 *)
(***************************************************************************)
Lit(alts) == [t |-> "lit", alts |-> alts, set |-> {}, neg |-> FALSE, min |-> 0, max |-> 0]
Cls(set, neg, min, max) ==
    [t |-> "cls", alts |-> <<>>, set |-> set, neg |-> neg, min |-> min, max |-> max]
Pattern(ci, items) == [ci |-> ci, items |-> items]

InClass(it, c) == (c \in it.set) # it.neg
Fold(ci, c) == IF ci /\ c \in DOMAIN LowerOf THEN LowerOf[c] ELSE c
LitAt(ci, lit, s, i) ==
    /\ i + Len(lit) - 1 <= Len(s)
    /\ \A j \in 1..Len(lit) : Fold(ci, s[i + j - 1]) = Fold(ci, lit[j])

\* How many characters from s[i] on a greedy class item takes at most.
RunLen(it, s, i) ==
    LET lim == IF it.max > 0 /\ i + it.max - 1 < Len(s) THEN i + it.max - 1 ELSE Len(s)
        bad == {j \in i..lim : ~InClass(it, s[j])}
    IN  IF bad = {} THEN lim - i + 1 ELSE MinOf(bad) - i

\* The backtracking matcher of re: items k.. of p against s from index i.
\* The result is the index after the match found first in backtracking
\* order, or 0 when there is none.
RECURSIVE MatchFrom(_, _, _, _), TryAlts(_, _, _, _, _), TryCount(_, _, _, _, _)
MatchFrom(p, k, s, i) ==
    IF k > Len(p.items) THEN i
    ELSE IF p.items[k].t = "lit" THEN TryAlts(p, k, s, i, 1)
    ELSE LET run == RunLen(p.items[k], s, i)
         IN  IF run < p.items[k].min THEN 0 ELSE TryCount(p, k, s, i, run)
TryAlts(p, k, s, i, a) ==
    IF a > Len(p.items[k].alts) THEN 0
    ELSE LET lit == p.items[k].alts[a]
             r == IF LitAt(p.ci, lit, s, i) THEN MatchFrom(p, k + 1, s, i + Len(lit)) ELSE 0
         IN  IF r # 0 THEN r ELSE TryAlts(p, k, s, i, a + 1)
TryCount(p, k, s, i, n) ==
    IF n < p.items[k].min THEN 0
    ELSE LET r == MatchFrom(p, k + 1, s, i + n)
         IN  IF r # 0 THEN r ELSE TryCount(p, k, s, i, n - 1)

\* re.search(p, s) from index `from`: <<start, end>> of the leftmost match
\* (end is the index after it), or <<>>.
re_search(p, s, from) ==
    LET starts == {j \in from..Len(s) : MatchFrom(p, 1, s, j) # 0}
    IN  IF starts = {} THEN <<>>
        ELSE LET j == MinOf(starts) IN <<j, MatchFrom(p, 1, s, j)>>

\* re.sub(p, repl, s): every non-overlapping match, left to right, replaced.
RECURSIVE re_sub_from(_, _, _, _)
re_sub_from(p, repl, s, from) ==
    LET m == re_search(p, s, from)
    IN  IF m = <<>> THEN SubSeq(s, from, Len(s))
        ELSE SubSeq(s, from, m[1] - 1) \o repl \o re_sub_from(p, repl, s, m[2])
\* A faulty re.sub: the first match only is replaced (count=1).
re_sub_once(p, repl, s) ==
    LET m == re_search(p, s, 1)
    IN  IF m = <<>> THEN s
        ELSE SubSeq(s, 1, m[1] - 1) \o repl \o SubSeq(s, m[2], Len(s))
re_sub(p, repl, s) == re_sub_from(p, repl, s, 1)

Matches(p, s) == re_search(p, s, 1) # <<>>


(***************************************************************************)
(* scrub_sensitive_data: the patterns and scrub_text                       *)
(***************************************************************************)
REDACTED == <<"[","R","E","D","A","C","T","E","D","]">>
Quote == {"\"", "'"}

\* (?i)(api[_-]?key|apikey|secret|password|token|credential)["\']?\s*[:=]\s*["\']?[\w\-]+
KeyValuePattern ==
    Pattern(TRUE,
      << Lit(<< <<"a","p","i","_","k","e","y">>, <<"a","p","i","-","k","e","y">>,
                <<"a","p","i","k","e","y">>, <<"a","p","i","k","e","y">>,
                <<"s","e","c","r","e","t">>, <<"p","a","s","s","w","o","r","d">>,
                <<"t","o","k","e","n">>, <<"c","r","e","d","e","n","t","i","a","l">> >>),
         Cls(Quote, FALSE, 0, 1),
         Cls(SpaceChar, FALSE, 0, 0),
         Cls({":", "="}, FALSE, 1, 1),
         Cls(SpaceChar, FALSE, 0, 0),
         Cls(Quote, FALSE, 0, 1),
         Cls(WordChar \cup {"-"}, FALSE, 1, 0) >>)
\* (?i)bearer\s+[\w\-\.]+
BearerPattern ==
    Pattern(TRUE,
      << Lit(<< <<"b","e","a","r","e","r">> >>),
         Cls(SpaceChar, FALSE, 1, 0),
         Cls(WordChar \cup {"-", "."}, FALSE, 1, 0) >>)
\* ghp_[a-zA-Z0-9]{36}
GithubPatPattern ==
    Pattern(FALSE, << Lit(<< <<"g","h","p","_">> >>), Cls(AlNum, FALSE, 36, 36) >>)
\* sk-[a-zA-Z0-9]{48}
OpenAiKeyPattern ==
    Pattern(FALSE, << Lit(<< <<"s","k","-">> >>), Cls(AlNum, FALSE, 48, 48) >>)

default_patterns == <<KeyValuePattern, BearerPattern, GithubPatPattern, OpenAiKeyPattern>>

\* The `patterns` argument: None, or a list.  `patterns or default_patterns`
\* takes the default for None and for the empty list.
PatternsNone == [given |-> FALSE, list |-> <<>>]
PatternsList(l) == [given |-> TRUE, list |-> l]
EffectivePatterns(arg) ==
    IF arg.given /\ arg.list # <<>> THEN arg.list ELSE default_patterns

\* scrub_text: each pattern in turn over the output of the one before.
RECURSIVE scrub_from(_, _, _)
scrub_from(pats, k, text) ==
    IF k > Len(pats) THEN text
    ELSE scrub_from(pats, k + 1, re_sub(pats[k], REDACTED, text))
\* The texts the recorder is called with, and a caller's own pattern list:
\* the one pattern r'hello'.
Secret == <<"t","o","k","e","n","=","a","1">>
Plain == <<"h","e","l","l","o">>
CustomPattern == Pattern(FALSE, << Lit(<< <<"h","e","l","l","o">> >>) >>)
KnownTexts == {<<>>, Secret, Plain, REDACTED}
ScrubTable ==
    [l \in {default_patterns, <<CustomPattern>>} |->
        [t \in KnownTexts |-> scrub_from(l, 1, t)] @@ <<>>] @@ <<>>

\* scrub_text, with the results for the texts and pattern lists known in
\* advance computed once: ScrubTable[l][t] is scrub_from(l, 1, t).
scrub_text(pats, text) ==
    IF pats \in DOMAIN ScrubTable /\ text \in KnownTexts
    THEN ScrubTable[pats][text]
    ELSE scrub_from(pats, 1, text)

\* A tool-call parameter value: a str or something else (an int here).
PStr(s) == [ty |-> "str", s |-> s, n |-> 0]
PInt(n) == [ty |-> "int", s |-> <<>>, n |-> n]

\* A faulty scrub_tool_call: the parameters that are not strings are lost.
scrub_tool_call_strings_only(pats, tc) ==
    [tc EXCEPT
        !.result = IF TruthyStr(tc.result) THEN Some(scrub_text(pats, tc.result[1])) ELSE @,
        !.parameters = [k \in {k \in DOMAIN tc.parameters : tc.parameters[k].ty = "str"} |->
                          PStr(scrub_text(pats, tc.parameters[k].s))]]

scrub_tool_call(pats, tc) ==
    [tc EXCEPT
        !.result = IF TruthyStr(tc.result) THEN Some(scrub_text(pats, tc.result[1])) ELSE @,
        !.parameters = [k \in DOMAIN tc.parameters |->
                          IF tc.parameters[k].ty = "str"
                          THEN PStr(scrub_text(pats, tc.parameters[k].s))
                          ELSE tc.parameters[k]]]

scrub_exchange(pats, e) ==
    [e EXCEPT
        !.user_prompt = scrub_text(pats, e.user_prompt),
        !.assistant_response = scrub_text(pats, e.assistant_response),
        !.tool_calls = [j \in 1..Len(e.tool_calls) |-> scrub_tool_call(pats, e.tool_calls[j])]]

\* for exchange in self.session.exchanges: the objects are changed in place.
RECURSIVE scrub_exchanges(_, _, _, _)
scrub_exchanges(pats, h, exs, k) ==
    IF k > Len(exs) THEN h
    ELSE scrub_exchanges(pats, [h EXCEPT ![exs[k]] = scrub_exchange(pats, @)], exs, k + 1)


(***************************************************************************)
(* The inputs the operations are called with                               *)
(***************************************************************************)
Texts == {Secret, Plain}

ToolView ==
    [name |-> "view",
     parameters |-> ("path" :> PStr(Secret) @@ "line" :> PInt(42)),
     result |-> Some(Secret), error |-> Some(Secret), retry_count |-> 0]
ToolGrep ==
    [name |-> "grep", parameters |-> ("pattern" :> PStr(Plain)),
     result |-> None, error |-> None, retry_count |-> 1]
ToolInputs == {ToolView, ToolGrep}

ErrAuth == [type |-> "auth", message |-> Secret, context |-> None]
ErrNoType == [type |-> "", message |-> Plain, context |-> Some("detail" :> Secret)]
ErrorInputs == {ErrAuth, ErrNoType}

Branches == {None, Some("main")}
\* What the probes of EnvironmentContext.capture() can return.
Hosts == {"host_a", "host_b"}

PatternArgs == {PatternsNone, PatternsList(<<>>), PatternsList(<<CustomPattern>>)}

(***************************************************************************)
(* Timestamps.  A timestamp string is known by what fromisoformat makes of *)
(* it: k = "naive" or "aware" (a valid ISO timestamp without or with a UTC *)
(* offset, t its instant in seconds), "bad" (a string fromisoformat        *)
(* rejects), "empty" (the empty string), and "none" for None.              *)
(***************************************************************************)
TimeStr(k, t) == [k |-> k, t |-> t]
NoTime == TimeStr("none", 0)
\* datetime.now().isoformat()
isoformat(t) == TimeStr("naive", t)
\* Python truthiness of an Optional[str] timestamp.
TruthyTime(ts) == ts.k \notin {"none", "empty"}
\* datetime.fromisoformat(ts) returns (TRUE) or raises ValueError (FALSE).
fromisoformat_ok(ts) == ts.k \in {"naive", "aware"}
\* end - start raises TypeError when one is naive and the other aware.
subtract_ok(a, b) == a.k = b.k

(***************************************************************************)
(* The debug-log miner                                                     *)
(***************************************************************************)
MaxLogFiles == 5
MaxEntries == 100
MaxRawLen == 500
QuoteSpaceColon == SpaceChar \cup {"\"", ":"}

\* The patterns of _extract_log_entries, in the order of the dict; all are
\* searched with re.IGNORECASE.
LogPatternNames == <<"api_call", "error", "timing", "model", "token_usage">>
LogPatterns ==
    << \* (POST|GET)\s+\S+api\S*
       Pattern(TRUE, << Lit(<< <<"P","O","S","T">>, <<"G","E","T">> >>),
                        Cls(SpaceChar, FALSE, 1, 0),
                        Cls(SpaceChar, TRUE, 1, 0),
                        Lit(<< <<"a","p","i">> >>),
                        Cls(SpaceChar, TRUE, 0, 0) >>),
       \* (ERROR|WARN|error|warning)[\s:]+(.+)
       Pattern(TRUE, << Lit(<< <<"E","R","R","O","R">>, <<"W","A","R","N">>,
                               <<"e","r","r","o","r">>, <<"w","a","r","n","i","n","g">> >>),
                        Cls(SpaceChar \cup {":"}, FALSE, 1, 0),
                        Cls({"\n"}, TRUE, 1, 0) >>),
       \* (\d+)ms
       Pattern(TRUE, << Cls(Digit, FALSE, 1, 0), Lit(<< <<"m","s">> >>) >>),
       \* model["\s:]+([a-zA-Z0-9\-\.]+)
       Pattern(TRUE, << Lit(<< <<"m","o","d","e","l">> >>),
                        Cls(QuoteSpaceColon, FALSE, 1, 0),
                        Cls(AlNum \cup {"-", "."}, FALSE, 1, 0) >>),
       \* (tokens?|usage)["\s:]+(\d+)
       Pattern(TRUE, << Lit(<< <<"t","o","k","e","n","s">>, <<"t","o","k","e","n">>,
                               <<"u","s","a","g","e">> >>),
                        Cls(QuoteSpaceColon, FALSE, 1, 0),
                        Cls(Digit, FALSE, 1, 0) >>) >>

\* A faulty slice: one element too many is kept.
Truncate_plus_one(line, n) == IF Len(line) <= n + 1 THEN line ELSE SubSeq(line, 1, n + 1)
\* line[:n]
Truncate(line, n) == IF Len(line) <= n THEN line ELSE SubSeq(line, 1, n)

\* The entry of one line: {"raw": line[:500]} and match.group(0) under the
\* name of each pattern that is found in the line.
match_line(line) ==
    LET hit == {k \in 1..Len(LogPatterns) : Matches(LogPatterns[k], line)}
        group0(k) == LET m == re_search(LogPatterns[k], line, 1)
                     IN  SubSeq(line, m[1], m[2] - 1)
    IN  ("raw" :> Truncate(line, MaxRawLen))
          @@ [n \in {LogPatternNames[k] : k \in hit} |->
                group0(CHOOSE k \in hit : LogPatternNames[k] = n)]

\* The lines of the log files below, and their entries computed once:
\* LineTable[l] is match_line(l).
MsLine == <<"5","m","s">>
ApiLine == <<"G","E","T"," ","/","a","p","i","/","v","1">>
OkLine == <<"o","k">>
LongLine == <<"7","m","s"," ">> \o Repeat("x", MaxRawLen - 3)
KnownLines == {MsLine, ApiLine, OkLine, LongLine}
LineTable == [l \in KnownLines |-> match_line(l)] @@ <<>>
log_entry(line) == IF line \in KnownLines THEN LineTable[line] ELSE match_line(line)

\* _extract_log_entries: the findings records it appends (none or one).
\* `content` is content.split('\n'), the list of lines.
extract_log_entries(content, filename) ==
    LET all == [i \in 1..Len(content) |-> log_entry(content[i])]
        entries == SelectSeq(all, LAMBDA e : Cardinality(DOMAIN e) > 1)
    IN  IF entries # <<>>
        THEN << [file |-> filename, entries |-> Truncate(entries, MaxEntries)] >>
        ELSE <<>>

\* sorted(..., key=mtime, reverse=True); the files of a directory have
\* distinct modification times.
RECURSIVE sorted_by_mtime_desc(_)
sorted_by_mtime_desc(files) ==
    IF files = {} THEN <<>>
    ELSE LET f == CHOOSE f \in files : \A g \in files : g.mtime <= f.mtime
         IN  <<f>> \o sorted_by_mtime_desc(files \ {f})

\* log_files[:5] of _parse_debug_logs: the files it goes through, in order.
\* No file when the directory is missing.
log_files_taken ==
    IF fs = None THEN <<>>
    ELSE Truncate(sorted_by_mtime_desc({f \in fs[1] : f.ext = "log"}), MaxLogFiles)

\* One turn of the loop of _parse_debug_logs: the records appended for a file.
findings_of(f) ==
    IF f.readable THEN extract_log_entries(f.content, f.name)
    ELSE << [file |-> f.name, error |-> "Failed to parse"] >>

\* _parse_debug_logs: the records appended to session.debug_logs.
parse_debug_logs ==
    IF ~TruthyStr(log_dir) THEN <<>>
    ELSE Concat([i \in 1..Len(log_files_taken) |-> findings_of(log_files_taken[i])])


(***************************************************************************)
(* The recorder.  The creation timestamps of Exchange, ToolCall and error  *)
(* records, and the session_id, model and working_directory of the         *)
(* metadata, are written once and read by no operation: they are left out. *)
(***************************************************************************)
CharsPerToken == 4
MsPerSecond == 1000

\* _estimate_tokens: len(text) // 4
estimate_tokens(text) == Len(text) \div CharsPerToken

\* Exchange(user_prompt=prompt, assistant_response="", input_tokens_estimate=...)
NewExchange(prompt) ==
    [user_prompt |-> prompt, assistant_response |-> <<>>, tool_calls |-> <<>>,
     input_tokens_estimate |-> Some(estimate_tokens(prompt)),
     output_tokens_estimate |-> None, exchange_duration_ms |-> None]

\* Reference counting: an object no reference leads to is freed.
Collect(h, exs, cur) == [i \in DOMAIN h \cap (Range(exs) \cup {cur}) |-> h[i]]

start_recording(git_branch, capture_environment, host) ==
    /\ recording' = TRUE
    /\ metadata' = [metadata EXCEPT !.git_branch = git_branch,
                                    !.start_time = isoformat(now)]
    /\ environment' = IF capture_environment THEN Some(host) ELSE environment
    /\ UNCHANGED <<heap, next_id, exchanges, errors, debug_logs, current_exchange,
                   exchange_start_time, tool_start_time, log_dir, now, fs, reads>>

\* A faulty stop_recording: the recording flag stays as it is.
stop_recording_still_recording ==
    /\ metadata' = [metadata EXCEPT !.end_time = isoformat(now)]
    /\ debug_logs' = debug_logs \o parse_debug_logs
    /\ reads' = IF TruthyStr(log_dir)
                THEN [i \in 1..Len(log_files_taken) |-> log_files_taken[i].name]
                ELSE <<>>
    /\ UNCHANGED <<recording, environment, heap, next_id, exchanges, errors,
                   current_exchange, exchange_start_time, tool_start_time, log_dir, now, fs>>

\* A faulty stop_recording: the end time is not stamped.
stop_recording_unstamped ==
    /\ recording' = FALSE
    /\ debug_logs' = debug_logs \o parse_debug_logs
    /\ reads' = IF TruthyStr(log_dir)
                THEN [i \in 1..Len(log_files_taken) |-> log_files_taken[i].name]
                ELSE <<>>
    /\ UNCHANGED <<metadata, environment, heap, next_id, exchanges, errors,
                   current_exchange, exchange_start_time, tool_start_time, log_dir, now, fs>>

\* A faulty stop_recording: the exchange that is open is dropped.
stop_recording_dropping_exchange ==
    /\ recording' = FALSE
    /\ metadata' = [metadata EXCEPT !.end_time = isoformat(now)]
    /\ debug_logs' = debug_logs \o parse_debug_logs
    /\ reads' = IF TruthyStr(log_dir)
                THEN [i \in 1..Len(log_files_taken) |-> log_files_taken[i].name]
                ELSE <<>>
    /\ current_exchange' = NoExchange
    /\ exchange_start_time' = None
    /\ heap' = Collect(heap, exchanges, NoExchange)
    /\ UNCHANGED <<environment, next_id, exchanges, errors, tool_start_time, log_dir,
                   now, fs>>

stop_recording ==
    /\ recording' = FALSE
    /\ metadata' = [metadata EXCEPT !.end_time = isoformat(now)]
    /\ debug_logs' = debug_logs \o parse_debug_logs
    /\ reads' = IF TruthyStr(log_dir)
                THEN [i \in 1..Len(log_files_taken) |-> log_files_taken[i].name]
                ELSE <<>>
    /\ UNCHANGED <<environment, heap, next_id, exchanges, errors, current_exchange,
                   exchange_start_time, tool_start_time, log_dir, now, fs>>

is_recording == recording

\* Faulty variants of add_user_prompt, against which the properties of the
\* discard are tested: one files the unfinished exchange instead of
\* dropping it, one writes the new prompt into the exchange that is open.
add_user_prompt_appending(prompt) ==
    IF ~recording THEN UNCHANGED vars
    ELSE /\ exchange_start_time' = Some(now)
         /\ current_exchange' = next_id
         /\ next_id' = next_id + 1
         /\ exchanges' = IF current_exchange # NoExchange
                         THEN Append(exchanges, current_exchange) ELSE exchanges
         /\ heap' = Collect(heap @@ (next_id :> NewExchange(prompt)), exchanges', next_id)
         /\ UNCHANGED <<recording, metadata, environment, errors, debug_logs,
                        tool_start_time, log_dir, now, fs, reads>>
add_user_prompt_reusing(prompt) ==
    IF ~recording THEN UNCHANGED vars
    ELSE /\ exchange_start_time' = Some(now)
         /\ IF current_exchange # NoExchange
            THEN /\ heap' = [heap EXCEPT ![current_exchange].user_prompt = prompt]
                 /\ UNCHANGED <<current_exchange, next_id>>
            ELSE /\ current_exchange' = next_id
                 /\ next_id' = next_id + 1
                 /\ heap' = Collect(heap @@ (next_id :> NewExchange(prompt)), exchanges,
                                    next_id)
         /\ UNCHANGED <<recording, metadata, environment, exchanges, errors, debug_logs,
                        tool_start_time, log_dir, now, fs, reads>>

add_user_prompt(prompt) ==
    IF ~recording THEN UNCHANGED vars
    ELSE /\ exchange_start_time' = Some(now)
         /\ current_exchange' = next_id
         /\ next_id' = next_id + 1
         /\ heap' = Collect(heap @@ (next_id :> NewExchange(prompt)), exchanges, next_id)
         /\ UNCHANGED <<recording, metadata, environment, exchanges, errors, debug_logs,
                        tool_start_time, log_dir, now, fs, reads>>

\* A faulty variant of add_assistant_response: the exchange is put in front
\* of the list.
add_assistant_response_prepending(response) ==
    IF ~recording \/ current_exchange = NoExchange THEN UNCHANGED vars
    ELSE /\ heap' = [heap EXCEPT ![current_exchange] =
                       [@ EXCEPT !.assistant_response = response,
                                 !.output_tokens_estimate = Some(estimate_tokens(response)),
                                 !.exchange_duration_ms =
                                     IF TruthyNum(exchange_start_time)
                                     THEN Some((now - exchange_start_time[1]) * MsPerSecond)
                                     ELSE @]]
         /\ exchanges' = <<current_exchange>> \o exchanges
         /\ current_exchange' = NoExchange
         /\ exchange_start_time' = None
         /\ UNCHANGED <<recording, metadata, environment, next_id, errors, debug_logs,
                        tool_start_time, log_dir, now, fs, reads>>

\* A faulty variant of add_assistant_response: the open-exchange slot keeps
\* its reference to the exchange that was filed.
add_assistant_response_keeping(response) ==
    IF ~recording \/ current_exchange = NoExchange THEN UNCHANGED vars
    ELSE /\ heap' = [heap EXCEPT ![current_exchange] =
                       [@ EXCEPT !.assistant_response = response,
                                 !.output_tokens_estimate = Some(estimate_tokens(response)),
                                 !.exchange_duration_ms =
                                     IF TruthyNum(exchange_start_time)
                                     THEN Some((now - exchange_start_time[1]) * MsPerSecond)
                                     ELSE @]]
         /\ exchanges' = Append(exchanges, current_exchange)
         /\ UNCHANGED <<recording, metadata, environment, next_id, errors, debug_logs,
                        current_exchange, exchange_start_time, tool_start_time, log_dir,
                        now, fs, reads>>

\* A faulty add_assistant_response: closing the exchange also takes the
\* pending tool timer away.
add_assistant_response_clearing_timer(response) ==
    IF ~recording \/ current_exchange = NoExchange THEN UNCHANGED vars
    ELSE /\ heap' = [heap EXCEPT ![current_exchange] =
                       [@ EXCEPT !.assistant_response = response,
                                 !.output_tokens_estimate = Some(estimate_tokens(response)),
                                 !.exchange_duration_ms =
                                     IF TruthyNum(exchange_start_time)
                                     THEN Some((now - exchange_start_time[1]) * MsPerSecond)
                                     ELSE @]]
         /\ exchanges' = Append(exchanges, current_exchange)
         /\ current_exchange' = NoExchange
         /\ exchange_start_time' = None
         /\ tool_start_time' = None
         /\ UNCHANGED <<recording, metadata, environment, next_id, errors, debug_logs,
                        log_dir, now, fs, reads>>

add_assistant_response(response) ==
    IF ~recording \/ current_exchange = NoExchange THEN UNCHANGED vars
    ELSE /\ heap' = [heap EXCEPT ![current_exchange] =
                       [@ EXCEPT !.assistant_response = response,
                                 !.output_tokens_estimate = Some(estimate_tokens(response)),
                                 !.exchange_duration_ms =
                                     IF TruthyNum(exchange_start_time)
                                     THEN Some((now - exchange_start_time[1]) * MsPerSecond)
                                     ELSE @]]
         /\ exchanges' = Append(exchanges, current_exchange)
         /\ current_exchange' = NoExchange
         /\ exchange_start_time' = None
         /\ UNCHANGED <<recording, metadata, environment, next_id, errors, debug_logs,
                        tool_start_time, log_dir, now, fs, reads>>

start_tool_call ==
    /\ tool_start_time' = Some(now)
    /\ UNCHANGED <<recording, metadata, environment, heap, next_id, exchanges, errors,
                   debug_logs, current_exchange, exchange_start_time, log_dir, now, fs,
                   reads>>

\* ToolCall(name, parameters, result, error, duration_ms, retry_count)
NewToolCall(call, duration_ms) ==
    [name |-> call.name, parameters |-> call.parameters, result |-> call.result,
     error |-> call.error, duration_ms |-> duration_ms, retry_count |-> call.retry_count]

\* A faulty variant of add_tool_call: the pending timer is read and left
\* pending.
add_tool_call_keeping_timer(call) ==
    IF ~recording \/ current_exchange = NoExchange THEN UNCHANGED vars
    ELSE /\ LET duration_ms == IF TruthyNum(tool_start_time)
                               THEN Some((now - tool_start_time[1]) * MsPerSecond)
                               ELSE None
            IN  heap' = [heap EXCEPT ![current_exchange].tool_calls =
                           Append(@, NewToolCall(call, duration_ms))]
         /\ UNCHANGED <<recording, metadata, environment, next_id, exchanges, errors,
                        debug_logs, current_exchange, exchange_start_time,
                        tool_start_time, log_dir, now, fs, reads>>

\* A faulty variant of add_tool_call: the recording flag is not looked at.
add_tool_call_unguarded(call) ==
    IF current_exchange = NoExchange THEN UNCHANGED vars
    ELSE /\ LET duration_ms == IF TruthyNum(tool_start_time)
                               THEN Some((now - tool_start_time[1]) * MsPerSecond)
                               ELSE None
            IN  heap' = [heap EXCEPT ![current_exchange].tool_calls =
                           Append(@, NewToolCall(call, duration_ms))]
         /\ tool_start_time' = IF TruthyNum(tool_start_time) THEN None ELSE tool_start_time
         /\ UNCHANGED <<recording, metadata, environment, next_id, exchanges, errors,
                        debug_logs, current_exchange, exchange_start_time, log_dir, now,
                        fs, reads>>

add_tool_call(call) ==
    IF ~recording \/ current_exchange = NoExchange THEN UNCHANGED vars
    ELSE /\ LET duration_ms == IF TruthyNum(tool_start_time)
                               THEN Some((now - tool_start_time[1]) * MsPerSecond)
                               ELSE None
            IN  heap' = [heap EXCEPT ![current_exchange].tool_calls =
                           Append(@, NewToolCall(call, duration_ms))]
         /\ tool_start_time' = IF TruthyNum(tool_start_time) THEN None ELSE tool_start_time
         /\ UNCHANGED <<recording, metadata, environment, next_id, exchanges, errors,
                        debug_logs, current_exchange, exchange_start_time, log_dir, now,
                        fs, reads>>

\* A faulty add_error: it also takes the pending tool timer away.
add_error_resetting_timer(err) ==
    IF ~recording THEN UNCHANGED vars
    ELSE /\ errors' = Append(errors,
                        [type |-> err.type, message |-> err.message,
                         context |-> IF err.context = None \/ err.context[1] = <<>>
                                     THEN <<>> ELSE err.context[1]])
         /\ tool_start_time' = None
         /\ UNCHANGED <<recording, metadata, environment, heap, next_id, exchanges,
                        debug_logs, current_exchange, exchange_start_time,
                        log_dir, now, fs, reads>>

add_error(err) ==
    IF ~recording THEN UNCHANGED vars
    ELSE /\ errors' = Append(errors,
                        [type |-> err.type, message |-> err.message,
                         context |-> IF err.context = None \/ err.context[1] = <<>>
                                     THEN <<>> ELSE err.context[1]])
         /\ UNCHANGED <<recording, metadata, environment, heap, next_id, exchanges,
                        debug_logs, current_exchange, exchange_start_time,
                        tool_start_time, log_dir, now, fs, reads>>

scrub_sensitive_data(patterns) ==
    /\ UNCHANGED <<recording, metadata, environment, next_id, exchanges, errors,
                   debug_logs, current_exchange, exchange_start_time, tool_start_time,
                   log_dir, now, fs, reads>>
    /\ heap' = scrub_exchanges(EffectivePatterns(patterns), heap, exchanges, 1)

\* Time passes between two calls.
Tick ==
    /\ now' = now + 1
    /\ UNCHANGED <<recorder_vars, fs, reads>>

(***************************************************************************)
(* SessionData.get_statistics                                              *)
(***************************************************************************)
\* All tool calls of session.exchanges, in the order of the two loops.
all_tool_calls == Concat([i \in 1..Len(exchanges) |-> heap[exchanges[i]].tool_calls])

\* A faulty counter: it records that a key was seen, not how often.
RECURSIVE count_keys_presence(_, _)
count_keys_presence(keys, counts) ==
    IF keys = <<>> THEN counts
    ELSE count_keys_presence(Tail(keys), [x \in DOMAIN counts \cup {Head(keys)} |-> 1])

\* counts[key] = counts.get(key, 0) + 1, for each key in turn.
RECURSIVE count_keys(_, _)
count_keys(keys, counts) ==
    IF keys = <<>> THEN counts
    ELSE LET k == Head(keys)
             old == IF k \in DOMAIN counts THEN counts[k] ELSE 0
         IN  count_keys(Tail(keys), [x \in DOMAIN counts \cup {k} |->
                                       IF x = k THEN old + 1 ELSE counts[x]])

\* A faulty duration: zero, not None, for a session that has no end time.
calculate_duration_zero ==
    IF ~TruthyTime(metadata.end_time) THEN Some(0)
    ELSE IF ~fromisoformat_ok(metadata.start_time) \/ ~fromisoformat_ok(metadata.end_time)
         THEN None
    ELSE IF ~subtract_ok(metadata.end_time, metadata.start_time) THEN None
    ELSE Some(metadata.end_time.t - metadata.start_time.t)

calculate_duration ==
    IF ~TruthyTime(metadata.end_time) THEN None
    ELSE IF ~fromisoformat_ok(metadata.start_time) \/ ~fromisoformat_ok(metadata.end_time)
         THEN None
    ELSE IF ~subtract_ok(metadata.end_time, metadata.start_time) THEN None
    ELSE Some(metadata.end_time.t - metadata.start_time.t)

total_errors == Len(errors)
total_tool_calls == SumSeq([i \in 1..Len(exchanges) |-> Len(heap[exchanges[i]].tool_calls)])
tool_counts == count_keys([j \in 1..Len(all_tool_calls) |-> all_tool_calls[j].name], <<>>)
\* err.get("type", "unknown"): the default is for a record without the key.
err_type(err) == IF "type" \in DOMAIN err THEN err.type ELSE "unknown"
error_types == count_keys([j \in 1..Len(errors) |-> err_type(errors[j])], <<>>)
OrZero(o) == IF o = None \/ o[1] = 0 THEN 0 ELSE o[1]
tool_durations ==
    SelectSeq([j \in 1..Len(all_tool_calls) |-> all_tool_calls[j].duration_ms],
              LAMBDA d : d # None)

get_statistics ==
    LET total_input == SumSeq([i \in 1..Len(exchanges) |->
                                 OrZero(heap[exchanges[i]].input_tokens_estimate)])
        total_output == SumSeq([i \in 1..Len(exchanges) |->
                                  OrZero(heap[exchanges[i]].output_tokens_estimate)])
    IN  [total_exchanges |-> Len(exchanges),
         total_tool_calls |-> total_tool_calls,
         total_errors |-> total_errors,
         duration_seconds |-> calculate_duration,
         token_estimates |-> [total_input |-> total_input, total_output |-> total_output,
                              total |-> total_input + total_output],
         \* avg_duration_ms is the fraction sum / count, None without durations
         tool_performance |->
             [avg_duration_ms |->
                  IF tool_durations # <<>>
                  THEN Some([sum |-> SumSeq([j \in 1..Len(tool_durations) |->
                                               tool_durations[j][1]]),
                             count |-> Len(tool_durations)])
                  ELSE None,
              tool_usage |-> tool_counts],
         error_breakdown |-> error_types]

(***************************************************************************)
(* The recorder as a state machine: a fresh SessionRecorder, then any      *)
(* sequence of calls.                                                      *)
(***************************************************************************)
\* SessionRecorder.__init__, whatever the disk holds
Fresh ==
    /\ recording = FALSE
    /\ now = 1
    /\ metadata = [start_time |-> isoformat(now), end_time |-> NoTime, git_branch |-> None]
    /\ environment = None
    /\ heap = <<>>
    /\ next_id = 1
    /\ exchanges = <<>>
    /\ errors = <<>>
    /\ debug_logs = <<>>
    /\ current_exchange = NoExchange
    /\ exchange_start_time = None
    /\ tool_start_time = None
    /\ reads = <<>>

(***************************************************************************)
(* Bounds.  A behaviour constructs finitely many objects: the guards below *)
(* stop a call that would record one more than the bound (a call that is   *)
(* a no-op is never stopped).                                              *)
(***************************************************************************)
CanPrompt(max_prompts) == IF recording THEN next_id <= max_prompts ELSE TRUE
CanTool(max_tools) ==
    IF recording /\ current_exchange # NoExchange
    THEN Len(heap[current_exchange].tool_calls) < max_tools
    ELSE TRUE
CanError(max_errors) == IF recording THEN Len(errors) < max_errors ELSE TRUE
CanStop(max_logs) == Len(debug_logs) + Len(parse_debug_logs) <= max_logs
CanTick(max_clock) == now < max_clock

(***************************************************************************)
(* Spec: the recording API.  Every operation of the recorder, called any   *)
(* number of times in any order within one reading of the clock; no log    *)
(* directory is configured and the environment is not captured.            *)
(***************************************************************************)
MaxPrompts == 2      \* Exchange objects constructed in one behaviour
MaxTools == 1        \* tool calls recorded in one exchange
MaxErrors == 1       \* error records in one behaviour

Init ==
    /\ Fresh
    /\ log_dir = None
    /\ fs = None

Next ==
    \/ start_recording(Some("main"), FALSE, "host_a")
    \/ stop_recording
    \/ CanPrompt(MaxPrompts) /\ \E t \in Texts : add_user_prompt(t)
    \/ add_assistant_response(Secret)
    \/ start_tool_call
    \/ CanTool(MaxTools) /\ add_tool_call(ToolView)
    \/ CanError(MaxErrors) /\ add_error(ErrAuth)
    \/ scrub_sensitive_data(PatternsNone)

Spec == Init /\ [][Next]_vars

(***************************************************************************)
(* SpecTimed: the recorder with the clock running between the calls.       *)
(***************************************************************************)
MaxClock == 2        \* the clock runs from 1 to MaxClock
TimedPrompts == 1
TimedTools == 1
TimedErrors == 1

NextTimed ==
    \/ \E b \in Branches : start_recording(b, FALSE, "host_a")
    \/ stop_recording
    \/ CanPrompt(TimedPrompts) /\ add_user_prompt(Secret)
    \/ add_assistant_response(Secret)
    \/ start_tool_call
    \/ CanTool(TimedTools) /\ add_tool_call(ToolView)
    \/ CanError(TimedErrors) /\ add_error(ErrAuth)
    \/ CanTick(MaxClock) /\ Tick

SpecTimed == Init /\ [][NextTimed]_vars


(***************************************************************************)
(* Properties of the recording API                                         *)
(***************************************************************************)
\* The steps of the calls, whatever their arguments.
PromptStep == \E t \in Texts : add_user_prompt(t)
ResponseStep == \E t \in Texts : add_assistant_response(t)
ToolStep == \E c \in ToolInputs : add_tool_call(c)
ErrorStep == \E e \in ErrorInputs : add_error(e)
StartStep == \E b \in Branches, c \in BOOLEAN, h \in Hosts : start_recording(b, c, h)
ScrubStep == \E p \in PatternArgs : scrub_sensitive_data(p)
ExchangeOpen == current_exchange # NoExchange
\* An exchange object is closed once add_assistant_response has set its
\* output token estimate.
Closed(e) == e.output_tokens_estimate # None
\* The exchange objects constructed so far that are neither filed nor open.
Discarded == {i \in 1..(next_id - 1) : i \notin Range(exchanges) /\ i # current_exchange}

\* C1: session.exchanges grows by exactly one on each add_assistant_response
\* that runs while recording with an exchange open, and no other step
\* changes its length.
C1_ExchangeCount ==
    [][ IF recording /\ ExchangeOpen /\ ResponseStep
        THEN Len(exchanges') = Len(exchanges) + 1
        ELSE Len(exchanges') = Len(exchanges) ]_vars
\* One exchange was discarded and the next one completed.
C1_Witness == exchanges = <<2>> /\ current_exchange = NoExchange

\* C2: last prompt wins.  A recorded add_user_prompt with an exchange open
\* drops that exchange: session.exchanges is unchanged, the dropped object is
\* gone and the open exchange is a new one with the prompt given and no tool
\* call.  A discarded exchange is never an element of session.exchanges
\* later, and the next recorded add_assistant_response files the open
\* exchange with its prompt and tool calls as they are.
C2_LastPromptWins ==
    [][ /\ (recording /\ ExchangeOpen /\ PromptStep) =>
              /\ exchanges' = exchanges
              /\ current_exchange' \notin {current_exchange, NoExchange}
              /\ current_exchange \notin DOMAIN heap'
              /\ heap'[current_exchange'].tool_calls = <<>>
              /\ \E t \in Texts : add_user_prompt(t) /\ heap'[current_exchange'].user_prompt = t
        /\ Discarded \subseteq Discarded'
        /\ (recording /\ ExchangeOpen /\ ResponseStep) =>
              /\ exchanges' = Append(exchanges, current_exchange)
              /\ heap'[current_exchange].user_prompt = heap[current_exchange].user_prompt
              /\ heap'[current_exchange].tool_calls = heap[current_exchange].tool_calls
        /\ \A i \in DOMAIN heap \cap DOMAIN heap' :
              Len(heap'[i].tool_calls) # Len(heap[i].tool_calls) => i = current_exchange ]_vars
\* Exchange 1 was discarded; exchange 2, with a tool call of its own, is filed.
C2_Witness ==
    /\ exchanges = <<2>>
    /\ 1 \in Discarded
    /\ Len(heap[2].tool_calls) = 1

\* C3: a call that violates its precondition changes nothing: add_tool_call
\* and add_assistant_response when not recording or with no exchange open,
\* add_user_prompt and add_error when not recording.
C3_NoOp ==
    [][ /\ ((~recording \/ ~ExchangeOpen) /\ (ToolStep \/ ResponseStep)) => UNCHANGED vars
        /\ (~recording /\ (PromptStep \/ ErrorStep)) => UNCHANGED vars ]_vars
\* Recording was stopped with an exchange open that holds a tool call, with
\* an error recorded and the tool timer pending: every field has a value a
\* stray call could change.
C3_Witness ==
    /\ ~recording
    /\ ExchangeOpen
    /\ heap[current_exchange].tool_calls # <<>>
    /\ errors # <<>>
    /\ exchanges # <<>>
    /\ tool_start_time # None

\* C4: no partial exchange is visible.  The open exchange is not an element
\* of session.exchanges, at most one exchange is open, every element of
\* session.exchanges is closed; and an element of session.exchanges stays in
\* place, keeps its tool calls, and is changed by scrub_sensitive_data only.
C4_Invariant ==
    /\ ExchangeOpen => /\ current_exchange \notin Range(exchanges)
                       /\ current_exchange \in DOMAIN heap
                       /\ ~Closed(heap[current_exchange])
    /\ \A k \in 1..Len(exchanges) : exchanges[k] \in DOMAIN heap /\ Closed(heap[exchanges[k]])
    /\ Cardinality({i \in DOMAIN heap : ~Closed(heap[i])}) <= 1
    /\ Cardinality(Range(exchanges)) = Len(exchanges)
C4_Step ==
    \A k \in 1..Len(exchanges) :
        /\ Len(exchanges') >= k
        /\ exchanges'[k] = exchanges[k]
        /\ exchanges[k] \in DOMAIN heap'
        /\ Len(heap'[exchanges[k]].tool_calls) = Len(heap[exchanges[k]].tool_calls)
        /\ heap'[exchanges[k]] = heap[exchanges[k]] \/ ScrubStep
C4_NoPartialExchange == []C4_Invariant /\ [][C4_Step]_vars
\* An exchange with a tool call is open while another one is filed.
C4_Witness ==
    /\ ExchangeOpen
    /\ exchanges # <<>>
    /\ heap[current_exchange].tool_calls # <<>>
    /\ recording

\* C5: right after any start_recording, end_time is absent and recording is
\* true.
C5_StartClearsEndTime ==
    [][ StartStep => (metadata'.end_time = NoTime /\ recording') ]_vars


(***************************************************************************)
(* SpecStats: get_statistics over sessions whose metadata holds any kind   *)
(* of timestamp (SessionMetadata is a plain dataclass: its fields take     *)
(* whatever the caller stores), with the recorder running on top.          *)
(***************************************************************************)
StatsClock == 2      \* the clock runs from 1 to StatsClock
StatsPrompts == 1
StatsTools == 1
StatsErrors == 1

StartTimes == {isoformat(1), TimeStr("aware", 1), TimeStr("bad", 0), TimeStr("empty", 0)}
EndTimes == {NoTime, TimeStr("empty", 0), isoformat(2), TimeStr("aware", 2),
             TimeStr("bad", 0)}

InitStats ==
    /\ recording = FALSE
    /\ now = 1
    /\ \E s \in StartTimes, e \in EndTimes :
           metadata = [start_time |-> s, end_time |-> e, git_branch |-> None]
    /\ environment = None
    /\ heap = <<>>
    /\ next_id = 1
    /\ exchanges = <<>>
    /\ errors = <<>>
    /\ debug_logs = <<>>
    /\ current_exchange = NoExchange
    /\ exchange_start_time = None
    /\ tool_start_time = None
    /\ reads = <<>>
    /\ log_dir = None
    /\ fs = None

NextStats ==
    \/ start_recording(None, FALSE, "host_a")
    \/ stop_recording
    \/ CanPrompt(StatsPrompts) /\ add_user_prompt(Plain)
    \/ add_assistant_response(Plain)
    \/ start_tool_call
    \/ CanTool(StatsTools) /\ add_tool_call(ToolGrep)
    \/ CanError(StatsErrors) /\ \E e \in ErrorInputs : add_error(e)
    \/ CanTick(StatsClock) /\ Tick

SpecStats == InitStats /\ [][NextStats]_vars

\* A timestamp is set when it is neither None nor the empty string, and a
\* valid ISO timestamp when datetime.fromisoformat accepts it.
TimeIsSet(ts) == ts.k \notin {"none", "empty"}
ValidIso(ts) == ts.k \in {"naive", "aware"}
EndMinusStart == metadata.end_time.t - metadata.start_time.t
CountsAreCurrent ==
    /\ get_statistics.total_exchanges = Len(exchanges)
    /\ get_statistics.total_tool_calls =
           Cardinality({kj \in (1..Len(exchanges)) \X (1..StatsTools + 1) :
                           kj[2] <= Len(heap[exchanges[kj[1]]].tool_calls)})
    /\ get_statistics.total_errors = Len(errors)
\* A step other than stop_recording leaves an absent end time absent.
OnlyStopSetsEndTime ==
    [][ (metadata.end_time = NoTime /\ ~stop_recording) => metadata'.end_time = NoTime ]_vars

UsagePrompts == 3
UsageTools == 2

NextUsage ==
    \/ start_recording(None, FALSE, "host_a")
    \/ CanPrompt(UsagePrompts) /\ add_user_prompt(Plain)
    \/ add_assistant_response(Plain)
    \/ CanTool(UsageTools) /\ \E c \in ToolInputs : add_tool_call(c)

SpecUsage == Init /\ [][NextUsage]_vars

RECURSIVE SumValues(_)
SumValues(f) ==
    IF DOMAIN f = {} THEN 0
    ELSE LET k == CHOOSE x \in DOMAIN f : TRUE
         IN  f[k] + SumValues([x \in DOMAIN f \ {k} |-> f[x]])
\* The tool calls of the closed exchanges, as (exchange, position) pairs.
ClosedToolCalls ==
    {kj \in (1..Len(exchanges)) \X (1..UsageTools + 1) :
        kj[2] <= Len(heap[exchanges[kj[1]]].tool_calls)}
ToolUsage == get_statistics.tool_performance.tool_usage

\* C7: the values of tool_usage sum to total_tool_calls, which is the
\* number of tool calls of the closed exchanges: a tool call recorded in the
\* open exchange is counted when that exchange is closed, and not at all
\* when it is discarded.
C7_ToolUsageSums ==
    /\ [](/\ SumValues(ToolUsage) = get_statistics.total_tool_calls
          /\ get_statistics.total_tool_calls = Cardinality(ClosedToolCalls)
          /\ \A n \in DOMAIN ToolUsage :
                 ToolUsage[n] = Cardinality({kj \in ClosedToolCalls :
                     heap[exchanges[kj[1]]].tool_calls[kj[2]].name = n}))
    /\ [][ total_tool_calls' = total_tool_calls +
              IF recording /\ ExchangeOpen /\ ResponseStep
              THEN Len(heap[current_exchange].tool_calls) ELSE 0 ]_vars
\* One exchange with a tool call was discarded, one with two calls of one
\* tool and one of the other tool are closed, and no exchange is open.
C7_Witness ==
    /\ Len(exchanges) = 2
    /\ 1 \in Discarded
    /\ DOMAIN ToolUsage = {"view", "grep"}
    /\ ToolUsage["view"] = 2
    /\ get_statistics.total_tool_calls = 3


(***************************************************************************)
(* SpecScrub: scrub_sensitive_data with the default patterns, over a       *)
(* session that was recorded and stopped: one exchange with one tool call, *)
(* the same text in each of its text fields.  The text is any sequence of  *)
(* up to MaxFrags fragments: what the patterns look for, in pieces.        *)
(***************************************************************************)
MaxFrags == 2
Fragments ==
    { <<"t","o","k","e","n","=">>,
      <<"S","e","c","r","e","t",":"," ","\"">>,
      <<"a","-","1">>,
      <<" ">>,
      <<"B","e","a","r","e","r"," ">>,
      <<"x",".","y">>,
      <<"g","h","p","_">> \o Repeat("a", 36),
      <<"s","k","-">> \o Repeat("Z", 48),
      REDACTED }
ScrubTexts == {Concat(frags) : frags \in UNION {[1..n -> Fragments] : n \in 0..MaxFrags}}

\* The session start_recording, add_user_prompt(t), add_tool_call,
\* add_assistant_response(t), stop_recording leave, at one reading of the
\* clock.
RecordedExchange(t) ==
    [NewExchange(t) EXCEPT
        !.assistant_response = t,
        !.output_tokens_estimate = Some(estimate_tokens(t)),
        !.exchange_duration_ms = Some(0),
        !.tool_calls = << NewToolCall([name |-> "view",
                                       parameters |-> ("path" :> PStr(t) @@ "line" :> PInt(42)),
                                       result |-> Some(t), error |-> Some(t),
                                       retry_count |-> 0], None) >>]
InitScrub ==
    /\ recording = FALSE
    /\ now = 1
    /\ metadata = [start_time |-> isoformat(1), end_time |-> isoformat(1),
                   git_branch |-> None]
    /\ environment = None
    /\ \E t \in ScrubTexts : heap = (1 :> RecordedExchange(t))
    /\ next_id = 2
    /\ exchanges = <<1>>
    /\ errors = <<>>
    /\ debug_logs = <<>>
    /\ current_exchange = NoExchange
    /\ exchange_start_time = Some(1)
    /\ tool_start_time = None
    /\ reads = <<>>
    /\ log_dir = None
    /\ fs = None

DefaultArgs == {PatternsNone, PatternsList(<<>>)}
NextScrub == \E p \in DefaultArgs : scrub_sensitive_data(p)

SpecScrub == InitScrub /\ [][NextScrub]_vars

\* The fields scrub_sensitive_data is to leave as its first call left them.
ScrubbedFields(h) ==
    [i \in DOMAIN h |->
        [user_prompt |-> h[i].user_prompt,
         assistant_response |-> h[i].assistant_response,
         results |-> [j \in 1..Len(h[i].tool_calls) |-> h[i].tool_calls[j].result],
         parameters |-> [j \in 1..Len(h[i].tool_calls) |-> h[i].tool_calls[j].parameters]]]

\* C8: redaction is idempotent.  In the state a call of scrub_sensitive_data
\* with the default patterns leads to, a second call leaves every prompt,
\* response, tool result and string parameter as it is; and the marker
\* matches no default pattern.
C8_ScrubIdempotent ==
    /\ [][ (\E p \in DefaultArgs : scrub_sensitive_data(p)) =>
              ScrubbedFields(scrub_exchanges(default_patterns, heap', exchanges', 1))
                  = ScrubbedFields(heap') ]_vars
    /\ [](\A k \in 1..Len(default_patterns) : ~Matches(default_patterns[k], REDACTED))
\* Two tokens in a row were redacted in the prompt (the tool call's error
\* text, which scrub_sensitive_data passes over, shows what the text was).
C8_Witness ==
    /\ heap[1].user_prompt = REDACTED \o REDACTED
    /\ heap[1].tool_calls[1].result = Some(REDACTED \o REDACTED)
    /\ heap[1].tool_calls[1].error # Some(REDACTED \o REDACTED)

\* The text fields of the session record.
OptText(o) == IF o = None THEN {} ELSE {o[1]}
ToolCallTexts(tc) ==
    OptText(tc.result) \cup OptText(tc.error)
        \cup {tc.parameters[k].s : k \in {k \in DOMAIN tc.parameters : tc.parameters[k].ty = "str"}}
ExchangeTexts(e) ==
    {e.user_prompt, e.assistant_response}
        \cup UNION {ToolCallTexts(e.tool_calls[j]) : j \in 1..Len(e.tool_calls)}
SessionTexts(h, exs, errs, logs) ==
    UNION {ExchangeTexts(h[exs[k]]) : k \in 1..Len(exs)}
      \cup UNION {{errs[j].message} \cup {errs[j].context[c] : c \in DOMAIN errs[j].context}
                     : j \in 1..Len(errs)}
      \cup UNION {IF "entries" \in DOMAIN logs[j]
                  THEN {logs[j].entries[i].raw : i \in 1..Len(logs[j].entries)}
                  ELSE {} : j \in 1..Len(logs)}
Leaks(texts, pats) == \E t \in texts : \E k \in 1..Len(pats) : Matches(pats[k], t)

\* C9: after scrub_sensitive_data returns, no text field of the session
\* record (prompts, responses, tool results, tool error texts, string
\* parameters, session error messages and context, debug-log entries) has a
\* substring that matches one of the patterns applied.
C9_ScrubScansAllText ==
    [][ \A p \in PatternArgs :
           scrub_sensitive_data(p) =>
               ~Leaks(SessionTexts(heap', exchanges', errors', debug_logs'),
                      EffectivePatterns(p)) ]_vars


(***************************************************************************)
(* SpecMiner: the debug log miner (stop_recording with a log directory     *)
(* configured) over directories of up to MaxFiles log files.  File number  *)
(* i was modified at time i; it is of one of four kinds.                   *)
(***************************************************************************)
MaxFiles == 6        \* log files in the directory
MaxDebugLogs == 5    \* findings records in session.debug_logs

\* More lines with a finding than one record may hold.
BigContent == [i \in 1..(MaxEntries + 1) |-> IF i % 2 = 1 THEN MsLine ELSE ApiLine]
\* A line with a finding that is longer than a raw line may be.
LongContent == <<OkLine, LongLine>>
QuietContent == <<OkLine>>
FileKinds == {"big", "long", "quiet", "unreadable"}
LogFile(i, kind) ==
    [name |-> ToString(i) \o ".log", ext |-> "log", mtime |-> i,
     readable |-> kind # "unreadable",
     content |-> CASE kind = "big" -> BigContent
                   [] kind = "long" -> LongContent
                   [] OTHER -> QuietContent]
\* A file *.log does not match, newer than every log file.
OtherFile ==
    [name |-> "notes.txt", ext |-> "txt", mtime |-> MaxFiles + 2, readable |-> TRUE,
     content |-> BigContent]
Directories ==
    {None} \cup
    { Some({LogFile(i, kinds[i]) : i \in DOMAIN kinds} \cup {OtherFile}) :
        kinds \in UNION {[1..n -> FileKinds] : n \in 0..MaxFiles} }

InitMiner ==
    /\ Fresh
    /\ log_dir = Some(<<"l","o","g","s">>)
    /\ fs \in Directories

NextMiner ==
    \/ start_recording(None, FALSE, "host_a")
    \/ CanStop(MaxDebugLogs) /\ stop_recording

SpecMiner == InitMiner /\ [][NextMiner]_vars

LogFilesOnDisk == IF fs = None THEN {} ELSE {f \in fs[1] : f.ext = "log"}
ReadFiles == {f \in LogFilesOnDisk : f.name \in Range(reads)}
\* The records of session.debug_logs that hold entries are within bounds.
RecordsBounded(logs) ==
    \A j \in 1..Len(logs) :
        "entries" \in DOMAIN logs[j] =>
            /\ Len(logs[j].entries) <= MaxEntries
            /\ \A i \in 1..Len(logs[j].entries) : Len(logs[j].entries[i].raw) <= MaxRawLen

\* C10: one run of the miner reads at most 5 files, the most recently
\* modified ones, and every findings record it appends holds at most 100
\* entries, each with a raw line of at most 500 characters.
C10_MinerBounds ==
    /\ [](/\ Len(reads) <= MaxLogFiles
          /\ Cardinality(ReadFiles) = Len(reads)
          /\ \A f \in ReadFiles : \A g \in LogFilesOnDisk \ ReadFiles : g.mtime < f.mtime
          /\ RecordsBounded(debug_logs))
    /\ [][ stop_recording =>
              /\ Len(reads') = IF Cardinality(LogFilesOnDisk) < MaxLogFiles
                               THEN Cardinality(LogFilesOnDisk) ELSE MaxLogFiles
              /\ Len(debug_logs') <= Len(debug_logs) + Len(reads')
              /\ \A j \in (Len(debug_logs) + 1)..Len(debug_logs') :
                     debug_logs'[j].file \in Range(reads') ]_vars
\* Of six log files the five newest were read: one record is full, one raw
\* line is cut to the limit, one file could not be read.
C10_Witness ==
    /\ Cardinality(LogFilesOnDisk) = MaxLogFiles + 1
    /\ Len(reads) = MaxLogFiles
    /\ \E j \in 1..Len(debug_logs) :
           "entries" \in DOMAIN debug_logs[j] /\ Len(debug_logs[j].entries) = MaxEntries
    /\ \E j \in 1..Len(debug_logs) :
           /\ "entries" \in DOMAIN debug_logs[j]
           /\ \E i \in 1..Len(debug_logs[j].entries) :
                  Len(debug_logs[j].entries[i].raw) = MaxRawLen
    /\ \E j \in 1..Len(debug_logs) : "error" \in DOMAIN debug_logs[j]


(***************************************************************************)
(* SpecExample: the session of the example under __main__, on a fresh      *)
(* recorder: start_recording, add_user_prompt, one add_tool_call (with or  *)
(* without start_tool_call before it), add_assistant_response and          *)
(* stop_recording, once each and in this order, with any arguments, the    *)
(* clock running in between.  The state tells how far the session is.      *)
(***************************************************************************)
ExampleClock == 3    \* the clock runs from 1 to ExampleClock

ExampleDirs == {None, Some({LogFile(1, "long"), OtherFile})}
InitExample ==
    /\ Fresh
    /\ log_dir \in {None, Some(<<"l","o","g","s">>)}
    /\ fs \in ExampleDirs

NotStarted == ~recording /\ exchanges = <<>>
NextExample ==
    \/ /\ NotStarted
       /\ \E b \in Branches, c \in BOOLEAN, h \in Hosts : start_recording(b, c, h)
    \/ /\ recording /\ next_id = 1
       /\ \E t \in Texts : add_user_prompt(t)
    \/ /\ recording /\ current_exchange # NoExchange /\ tool_start_time = None
       /\ heap[current_exchange].tool_calls = <<>>
       /\ start_tool_call
    \/ /\ recording /\ current_exchange # NoExchange
       /\ heap[current_exchange].tool_calls = <<>>
       /\ \E c \in ToolInputs : add_tool_call(c)
    \/ /\ recording /\ current_exchange # NoExchange
       /\ heap[current_exchange].tool_calls # <<>>
       /\ \E t \in Texts : add_assistant_response(t)
    \/ /\ recording /\ exchanges # <<>>
       /\ stop_recording
    \/ CanTick(ExampleClock) /\ Tick

SpecExample == InitExample /\ [][NextExample]_vars

\* The session is over: stop_recording has run.
ExampleDone == ~recording /\ exchanges # <<>>

\* C11: after start_recording, add_user_prompt, one add_tool_call,
\* add_assistant_response and stop_recording on a fresh recorder there is
\* exactly one exchange with exactly one tool call, the statistics count one
\* exchange, one tool call and no error, and the duration is present and not
\* negative.
C11_EndToEnd ==
    ExampleDone =>
        /\ Len(exchanges) = 1
        /\ Len(heap[exchanges[1]].tool_calls) = 1
        /\ current_exchange = NoExchange
        /\ get_statistics.total_exchanges = 1
        /\ get_statistics.total_tool_calls = 1
        /\ get_statistics.total_errors = 0
        /\ get_statistics.duration_seconds # None
        /\ get_statistics.duration_seconds[1] >= 0
\* The session is over and took two seconds.
C11_Witness ==
    /\ ExampleDone
    /\ get_statistics.duration_seconds = Some(2)
    /\ heap[exchanges[1]].tool_calls[1].duration_ms = Some(MsPerSecond)


(***************************************************************************)
(* Properties of the session-scoped records and of the lifecycle           *)
(***************************************************************************)
\* C12: errors are session-scoped.  While recording, add_error appends
\* exactly one record to session.errors, with an exchange open or not, and
\* leaves the exchanges, the open exchange with its tool calls and the
\* pending tool timer as they are; no other step changes the number of
\* errors, so total_errors is the number of add_error calls made while
\* recording.
C12_ErrorsSessionScoped ==
    [][ /\ (recording /\ ErrorStep) =>
              /\ \E e \in ErrorInputs :
                     /\ add_error(e)
                     /\ Len(errors') = Len(errors) + 1
                     /\ SubSeq(errors', 1, Len(errors)) = errors
                     /\ errors'[Len(errors')].type = e.type
                     /\ errors'[Len(errors')].message = e.message
              /\ UNCHANGED <<exchanges, heap, current_exchange, tool_start_time,
                             exchange_start_time, recording, metadata>>
        /\ ~(recording /\ ErrorStep) => Len(errors') = Len(errors)
        /\ total_errors = Len(errors) /\ total_errors' = Len(errors') ]_vars
\* An error was recorded with no exchange open and the tool timer pending.
C12_Witness ==
    /\ errors # <<>>
    /\ next_id = 1
    /\ tool_start_time # None
    /\ recording


\* C13: stop_recording always sets the recording flag to false and stamps
\* metadata.end_time with the time of the call, started or not; once
\* stopped, the session has an end time and is not recording until the next
\* start_recording.
C13_StopAlwaysStamps ==
    [][ /\ stop_recording =>
              /\ ~is_recording'
              /\ metadata'.end_time = isoformat(now)
              /\ TimeIsSet(metadata'.end_time)
        /\ (~is_recording /\ TimeIsSet(metadata.end_time) /\ ~StartStep) =>
              (~is_recording' /\ TimeIsSet(metadata'.end_time)) ]_vars
\* stop_recording at time 2 on a recorder that holds nothing: no exchange
\* was ever opened and the start time is the one of the constructor.
C13_Witness ==
    /\ ~is_recording
    /\ metadata.end_time = isoformat(2)
    /\ metadata.start_time = isoformat(1)
    /\ metadata.git_branch = None
    /\ next_id = 1
    /\ errors = <<>>


(***************************************************************************)
(* SpecOrder: the recording calls with two tools and two kinds of error,   *)
(* several tool calls in an exchange and several errors in a session.      *)
(***************************************************************************)
OrderPrompts == 2
OrderTools == 2
OrderErrors == 2

NextOrder ==
    \/ start_recording(Some("main"), FALSE, "host_a")
    \/ stop_recording
    \/ CanPrompt(OrderPrompts) /\ add_user_prompt(Plain)
    \/ add_assistant_response(Plain)
    \/ CanTool(OrderTools) /\ \E c \in ToolInputs : add_tool_call(c)
    \/ CanError(OrderErrors) /\ \E e \in ErrorInputs : add_error(e)

SpecOrder == Init /\ [][NextOrder]_vars

IsPrefix(s, t) == Len(s) <= Len(t) /\ SubSeq(t, 1, Len(s)) = s

\* C14: the recording API is append-only and ordered.  Over every step other
\* than scrub_sensitive_data the exchanges and the errors before the step
\* are prefixes of those after it, exchange by exchange with the same
\* content; a recorded response puts its exchange last, a recorded tool call
\* puts its ToolCall last in the open exchange, a recorded error puts its
\* record last.
C14_AppendOnly ==
    [][ /\ IsPrefix(exchanges, exchanges')
        /\ IsPrefix(errors, errors')
        /\ \A k \in 1..Len(exchanges) : heap'[exchanges[k]] = heap[exchanges[k]]
        /\ (recording /\ ExchangeOpen /\ ResponseStep) =>
               exchanges'[Len(exchanges')] = current_exchange
        /\ (recording /\ ExchangeOpen) =>
               \A c \in ToolInputs : add_tool_call(c) =>
                   LET old == heap[current_exchange].tool_calls
                       new == heap'[current_exchange].tool_calls
                   IN  /\ Len(new) = Len(old) + 1
                       /\ IsPrefix(old, new)
                       /\ new[Len(new)].name = c.name
        /\ ExchangeOpen /\ current_exchange' = current_exchange =>
               IsPrefix(heap[current_exchange].tool_calls,
                        heap'[current_exchange].tool_calls)
        /\ recording =>
               \A e \in ErrorInputs : add_error(e) =>
                   errors'[Len(errors')].type = e.type ]_vars
\* Two exchanges are listed in the order of their responses, the second with
\* its two tool calls in the order of the calls, after two errors of
\* different types.
C14_Witness ==
    /\ exchanges = <<1, 2>>
    /\ Len(heap[2].tool_calls) = 2
    /\ heap[2].tool_calls[1].name = "grep"
    /\ heap[2].tool_calls[2].name = "view"
    /\ Len(errors) = 2
    /\ errors[1].type # errors[2].type


\* C15: a second start_recording changes nothing except metadata.start_time:
\* over a start_recording step of a recorder that is recording, the git
\* branch, the recording flag, the exchanges, the errors, the open exchange
\* and everything else but the start time stay as the first call left them.
C15_SecondStartRestampsOnly ==
    [][ (recording /\ StartStep) =>
           /\ metadata'.git_branch = metadata.git_branch
           /\ metadata'.end_time = metadata.end_time
           /\ metadata'.start_time = isoformat(now)
           /\ UNCHANGED <<recording, environment, heap, exchanges, errors, debug_logs,
                          current_exchange, exchange_start_time, tool_start_time>> ]_vars

(***************************************************************************)
(* SpecEnv: the lifecycle calls with every argument of start_recording;    *)
(* what EnvironmentContext.capture() returns is whatever the host answers  *)
(* at the time of the call.                                                *)
(***************************************************************************)
EnvClock == 3        \* the clock runs from 1 to EnvClock

NextEnv ==
    \/ \E b \in Branches, c \in BOOLEAN, h \in Hosts : start_recording(b, c, h)
    \/ stop_recording
    \/ CanTick(EnvClock) /\ Tick

SpecEnv == Init /\ [][NextEnv]_vars

\* C16: the environment is captured at most once: once session.environment
\* is populated no step replaces it.
C16_EnvironmentCapturedOnce ==
    [][ environment # None => environment' = environment ]_vars


(***************************************************************************)
(* SpecTimer: tool calls with and without start_tool_call before them, the *)
(* clock running.                                                          *)
(***************************************************************************)
TimerClock == 2      \* the clock runs from 1 to TimerClock
TimerPrompts == 1
TimerTools == 2

NextTimer ==
    \/ start_recording(None, FALSE, "host_a")
    \/ stop_recording
    \/ CanPrompt(TimerPrompts) /\ add_user_prompt(Plain)
    \/ add_assistant_response(Plain)
    \/ start_tool_call
    \/ CanTool(TimerTools) /\ add_tool_call(ToolGrep)
    \/ CanTick(TimerClock) /\ Tick

SpecTimer == Init /\ [][NextTimer]_vars

\* C17: the tool timer is one-shot.  A recorded add_tool_call that finds a
\* timer pending records the time since start_tool_call as duration_ms and
\* resets the timer; one that finds none records no duration_ms; and only
\* start_tool_call sets the timer, so the tool call that follows another
\* without a start_tool_call in between has no duration_ms.
C17_TimerOneShot ==
    [][ /\ (recording /\ ExchangeOpen /\ ToolStep) =>
              LET calls == heap'[current_exchange].tool_calls
                  duration_ms == calls[Len(calls)].duration_ms
              IN  /\ Len(calls) = Len(heap[current_exchange].tool_calls) + 1
                  /\ tool_start_time' = None
                  /\ IF tool_start_time # None
                     THEN duration_ms = Some((now - tool_start_time[1]) * MsPerSecond)
                     ELSE duration_ms = None
        /\ (tool_start_time = None /\ ~start_tool_call) => tool_start_time' = None ]_vars
\* Two tool calls in one exchange after one start_tool_call: the first took
\* a second, the second has no duration.
C17_Witness ==
    /\ ExchangeOpen
    /\ Len(heap[current_exchange].tool_calls) = 2
    /\ heap[current_exchange].tool_calls[1].duration_ms = Some(MsPerSecond)
    /\ heap[current_exchange].tool_calls[2].duration_ms = None
    /\ tool_start_time = None


(***************************************************************************)
(* Properties of the statistics and of the redaction                       *)
(***************************************************************************)
ErrorBreakdown == get_statistics.error_breakdown
ErrorsOfType(T) == Cardinality({j \in 1..Len(errors) : errors[j].type = T})

\* C18: the error breakdown maps each error type to the number of its
\* errors, with the errors whose type is empty counted under "unknown", and
\* its values sum to total_errors.
C18_ErrorBreakdown ==
    /\ SumValues(ErrorBreakdown) = get_statistics.total_errors
    /\ "" \notin DOMAIN ErrorBreakdown
    /\ \A T \in DOMAIN ErrorBreakdown :
           ErrorBreakdown[T] = IF T = "unknown"
                               THEN ErrorsOfType("unknown") + ErrorsOfType("")
                               ELSE ErrorsOfType(T)
    /\ ErrorsOfType("") > 0 => "unknown" \in DOMAIN ErrorBreakdown


\* What scrub_sensitive_data is to leave alone in an exchange.
NonText(e) ==
    [input_tokens_estimate |-> e.input_tokens_estimate,
     output_tokens_estimate |-> e.output_tokens_estimate,
     exchange_duration_ms |-> e.exchange_duration_ms,
     tool_calls |-> [j \in 1..Len(e.tool_calls) |->
        [name |-> e.tool_calls[j].name,
         keys |-> DOMAIN e.tool_calls[j].parameters,
         others |-> [k \in {k \in DOMAIN e.tool_calls[j].parameters :
                               e.tool_calls[j].parameters[k].ty # "str"} |->
                        e.tool_calls[j].parameters[k]],
         duration_ms |-> e.tool_calls[j].duration_ms,
         retry_count |-> e.tool_calls[j].retry_count,
         has_result |-> e.tool_calls[j].result # None,
         error |-> e.tool_calls[j].error]]]

\* The names of the tool calls of the listed exchanges, in order: what
\* tool_usage is counted from.
ToolNames(h, exs) ==
    Concat([k \in 1..Len(exs) |->
              [j \in 1..Len(h[exs[k]].tool_calls) |-> h[exs[k]].tool_calls[j].name]])

\* C19: scrub_sensitive_data changes only text.  The exchanges and their
\* order, the tool calls with their names, parameter keys, non-string
\* parameter values, durations and token estimates, the errors, the
\* metadata, the recording flag, the open exchange and the pending timer are
\* the same after the call, and so are total_exchanges, total_tool_calls,
\* total_errors, tool_usage and the duration of the statistics.  (Only the
\* heap of Exchange objects is written by the call: a call that leaves it
\* as it is has changed nothing at all.)
C19_ScrubChangesOnlyText ==
    /\ [](ToolUsage = count_keys(ToolNames(heap, exchanges), <<>>))
    /\ [][ (heap' # heap /\ ScrubStep) =>
               /\ UNCHANGED <<exchanges, errors, metadata, recording, current_exchange,
                              tool_start_time, exchange_start_time, environment, debug_logs,
                              next_id>>
               /\ DOMAIN heap' = DOMAIN heap
               /\ \A i \in DOMAIN heap : NonText(heap'[i]) = NonText(heap[i])
               /\ ExchangeOpen => heap'[current_exchange] = heap[current_exchange]
               /\ total_tool_calls' = total_tool_calls
               /\ ToolNames(heap', exchanges') = ToolNames(heap, exchanges)
               /\ calculate_duration' = calculate_duration
               /\ Len(exchanges') = Len(exchanges) /\ Len(errors') = Len(errors) ]_vars
\* A closed exchange whose tool call has a string and a number for
\* parameters was scrubbed, with an exchange open and the timer pending.
C19_Witness ==
    /\ exchanges # <<>>
    /\ Len(heap[exchanges[1]].tool_calls) = 1
    /\ heap[exchanges[1]].tool_calls[1].parameters["path"] = PStr(REDACTED)
    /\ heap[exchanges[1]].tool_calls[1].parameters["line"] = PInt(42)
    /\ heap[exchanges[1]].assistant_response = REDACTED
    /\ ExchangeOpen
    /\ tool_start_time # None
    /\ errors # <<>>


\* C20: caller-supplied patterns fully replace the default set: for every
\* pattern list passed to scrub_sensitive_data, the empty list included,
\* the session after the call is the session with exactly the patterns of
\* the list applied.
C20_CallerPatternsReplaceDefaults ==
    [][ \A p \in PatternArgs :
           (p.given /\ scrub_sensitive_data(p)) =>
               heap' = scrub_exchanges(p.list, heap, exchanges, 1) ]_vars


(***************************************************************************)
(* SpecSticky: two exchanges, a timer that may be started at any moment,   *)
(* the clock running.                                                      *)
(***************************************************************************)
StickyClock == 2     \* the clock runs from 1 to StickyClock
StickyPrompts == 2
StickyTools == 1

NextSticky ==
    \/ start_recording(None, FALSE, "host_a")
    \/ stop_recording
    \/ CanPrompt(StickyPrompts) /\ add_user_prompt(Plain)
    \/ add_assistant_response(Plain)
    \/ start_tool_call
    \/ CanTool(StickyTools) /\ add_tool_call(ToolGrep)
    \/ CanTick(StickyClock) /\ Tick

SpecSticky == Init /\ [][NextSticky]_vars

\* A call of add_tool_call that records a tool call.
RecordedToolStep == recording /\ ExchangeOpen /\ ToolStep

\* C21: start_tool_call is unguarded and its timer is sticky.  The pending
\* timer becomes absent in no step but a recorded add_tool_call (not in
\* add_user_prompt, add_assistant_response, stop_recording, start_recording
\* or an add_tool_call that is a no-op); a pending timer that changes
\* without being consumed was started again, which start_tool_call does
\* whether or not the recorder is recording and whether or not an exchange
\* is open; and the recorded add_tool_call that finds a timer pending
\* consumes it, whenever it was started: the duration it records is the
\* time since then.
C21_TimerSticky ==
    [][ /\ (tool_start_time # None /\ tool_start_time' = None) => RecordedToolStep
        /\ (tool_start_time' # tool_start_time /\ tool_start_time' # None) =>
               /\ tool_start_time' = Some(now)
               /\ UNCHANGED <<recording, current_exchange, heap, exchanges>>
        /\ (tool_start_time # None /\ RecordedToolStep) =>
               LET calls == heap'[current_exchange].tool_calls
               IN  /\ calls[Len(calls)].duration_ms =
                          Some((now - tool_start_time[1]) * MsPerSecond)
                   /\ tool_start_time' = None ]_vars
\* The first exchange was closed without a tool call; the tool call of the
\* second, opened just now, took a second: its timer was started before the
\* exchange was opened.
C21_Witness ==
    /\ Len(exchanges) = 1
    /\ heap[exchanges[1]].tool_calls = <<>>
    /\ ExchangeOpen
    /\ exchange_start_time = Some(now)
    /\ Len(heap[current_exchange].tool_calls) = 1
    /\ heap[current_exchange].tool_calls[1].duration_ms = Some(MsPerSecond)
    /\ tool_start_time = None


\* The texts of an exchange that are recorded before its response and that
\* the loop of scrub_sensitive_data rewrites: the prompt, and the result
\* and the string parameters of its tool calls.
RecordedTexts(e) ==
    {e.user_prompt}
        \cup UNION {OptText(e.tool_calls[j].result)
                      \cup {e.tool_calls[j].parameters[k].s :
                               k \in {k \in DOMAIN e.tool_calls[j].parameters :
                                         e.tool_calls[j].parameters[k].ty = "str"}}
                    : j \in 1..Len(e.tool_calls)}

\* C22: redaction covers everything recorded before it ran.  When
\* scrub_sensitive_data returns, the prompt and the tool calls of every
\* exchange recorded so far, filed in session.exchanges or still open, are
\* free of matches of the patterns applied; and the add_assistant_response
\* that closes the open exchange later files that very exchange with its
\* prompt and tool calls as they are, so that what is in session.exchanges
\* and was recorded before the call is free of matches.
C22_ScrubCoversOpenExchange ==
    [][ /\ \A p \in PatternArgs :
               scrub_sensitive_data(p) =>
                   \A i \in DOMAIN heap' :
                       ~Leaks(RecordedTexts(heap'[i]), EffectivePatterns(p))
        /\ (recording /\ ExchangeOpen /\ ResponseStep) =>
               /\ exchanges' = Append(exchanges, current_exchange)
               /\ RecordedTexts(heap'[current_exchange])
                      = RecordedTexts(heap[current_exchange]) ]_vars


\* C23: debug-log findings are not duplicated.  session.debug_logs is
\* changed by no call but a stop_recording with a log directory configured,
\* and after any sequence of calls, several stop_recording calls over the
\* same directory included, it holds at most one findings record per log
\* file, hence at most 5 records.
C23_FindingsNotDuplicated ==
    /\ [](/\ \A j, k \in 1..Len(debug_logs) :
                  debug_logs[j].file = debug_logs[k].file => j = k
          /\ Len(debug_logs) <= MaxLogFiles)
    /\ [][ debug_logs' # debug_logs => (stop_recording /\ TruthyStr(log_dir)) ]_vars


\* C24: stop_recording changes nothing but the recording flag,
\* metadata.end_time and debug_logs: the open-exchange slot, the exchange
\* start time, the pending tool timer, the exchanges and the errors are as
\* before.  No exchange is appended while the recorder is stopped,
\* start_recording leaves the open exchange alone too, and the
\* add_assistant_response that finds the recorder recording and an
\* exchange open closes and appends that exchange: one that was open at
\* stop is still open after the next start and is filed by the next
\* response.
C24_StopKeepsOpenExchange ==
    [][ /\ stop_recording =>
               /\ recording' = FALSE
               /\ metadata' = [metadata EXCEPT !.end_time = metadata'.end_time]
               /\ UNCHANGED <<current_exchange, exchange_start_time, tool_start_time,
                              exchanges, errors, heap, next_id, environment>>
        /\ ~recording => exchanges' = exchanges
        /\ StartStep => UNCHANGED <<current_exchange, exchange_start_time,
                                    tool_start_time, exchanges, errors, heap>>
        /\ (recording /\ ExchangeOpen /\ ResponseStep) =>
               /\ exchanges' = Append(exchanges, current_exchange)
               /\ current_exchange' = NoExchange
               /\ Closed(heap'[current_exchange]) ]_vars
\* The exchange opened at time 1 is open at time 2, after a stop_recording
\* and a start_recording at time 2, the timer started at time 1 pending.
C24_Witness ==
    /\ recording
    /\ ExchangeOpen
    /\ exchange_start_time = Some(1)
    /\ tool_start_time = Some(1)
    /\ metadata.end_time = isoformat(2)
    /\ metadata.start_time = isoformat(2)


\* C25: duration accounting is monotonic.  The clock never goes back, and
\* in every state reached by start_recording and stop_recording calls
\* (start, stop, start included) the duration of the statistics is absent
\* or not negative: end_time, once set, is not earlier than start_time.
C25_DurationNotNegative ==
    /\ calculate_duration # None => calculate_duration[1] >= 0
    /\ TruthyTime(metadata.end_time) => metadata.end_time.t >= metadata.start_time.t

====
